---- MODULE Spec2Model ----
(***************************************************************************)
(* A model of the GitLab CI log section extractor (src/loaganalyzer.py):   *)
(* the marker scan, the name -> offset dictionaries, the working set, the  *)
(* two-pass ANSI cleanup, the final-status tail and the main workflow.     *)
(*                                                                         *)
(* A text is a sequence of characters; a character is a one-token string   *)
(* ("s", "[", "0", ...), with ESC for \x1b and NL, SP, TAB, CR for the     *)
(* whitespace characters.  Offsets are Python's: 0-based, m.end() being    *)
(* the offset just after a match, so that log[a:b] is SubSeq(log, a+1, b). *)
(***************************************************************************)
EXTENDS Integers, Sequences, FiniteSets, TLC

VARIABLES
    pc,                  \* position of the running script or call
    log_content,         \* the log text (NoneText when the fetch failed)
    sections_to_capture, \* the explicit selection argument (NoneList or a set of names)
    capture_all,         \* the capture-all argument
    result,              \* what extract_sections returned and printed (None before)
    final_status,        \* what extract_final_status returned (NotRun before)
    content,             \* a text handed to the cleanup passes
    cleaned,             \* the cleanup of content
    recleaned,           \* the cleanup of cleaned
    reversed,            \* content cleaned with the two passes in the other order
    response,            \* what the log URL answers
    extract_final,       \* EXTRACT_FINAL_STATUS
    calls,               \* the functions the main script has invoked, in order
    files                \* the files the main script has written, in order

vars == <<pc, log_content, sections_to_capture, capture_all, result, final_status,
          content, cleaned, recleaned, reversed, response, extract_final, calls, files>>

\* Python's None, and its stand-ins where a text or a list of names is expected:
\* a one-element sequence whose element is no character, and a set whose element
\* is no name.
None == "None"
NoneText == <<None>>
NoneList == {NoneText}
\* The value of a text variable that no statement has assigned yet.
NotRun == <<"NotRun">>

-----------------------------------------------------------------------------
(* Characters and character classes of the regular expressions.            *)

ESC == "ESC"
Digit == {"0", "1", "2", "3", "4", "5", "6", "7", "8", "9"}
Whitespace == {"SP", "TAB", "NL", "CR", "FF", "VT"}
Brackets == {"[", "]"}
DigitSemi == Digit \cup {";"}
CsiFinal == {"m", "G", "K", "H"}

SetMin(S) == CHOOSE x \in S : \A y \in S : x <= y
SetMax(S) == CHOOSE x \in S : \A y \in S : x >= y

\* The literal lit stands in s at (1-based) position i.
HasLit(s, i, lit) ==
    /\ i + Len(lit) - 1 <= Len(s)
    /\ SubSeq(s, i, i + Len(lit) - 1) = lit

\* A greedy run: the last position of the longest run of characters in C
\* (NotIn = FALSE) or outside C (NotIn = TRUE) that starts at i; i - 1 when empty.
RunEnd(s, i, C, NotIn) ==
    LET Stop(k) == k > Len(s) \/ (s[k] \in C) = NotIn
    IN  (CHOOSE k \in i..(Len(s) + 1) : Stop(k) /\ \A j \in i..(k - 1) : ~Stop(j)) - 1

-----------------------------------------------------------------------------
(* The cleanup passes.                                                      *)

\* r'\x1b\[[0-9;]*[mGKH]' at position i: the position of its last character, 0
\* when it does not match there.
EscMatchEnd(s, i) ==
    IF i + 1 <= Len(s) /\ s[i] = ESC /\ s[i + 1] = "["
    THEN LET r == RunEnd(s, i + 2, DigitSemi, FALSE)
         IN  IF r + 1 <= Len(s) /\ s[r + 1] \in CsiFinal THEN r + 1 ELSE 0
    ELSE 0

\* The same pattern without its leading \x1b.
EscMatchEndNoEsc(s, i) ==
    IF i <= Len(s) /\ s[i] = "["
    THEN LET r == RunEnd(s, i + 1, DigitSemi, FALSE)
         IN  IF r + 1 <= Len(s) /\ s[r + 1] \in CsiFinal THEN r + 1 ELSE 0
    ELSE 0

\* r'\[0K|\[0;m|\[[\d;]+m' at position i, the alternatives tried in order.
BracketMatchEnd(s, i) ==
    IF HasLit(s, i, <<"[", "0", "K">>) THEN i + 2
    ELSE IF HasLit(s, i, <<"[", "0", ";", "m">>) THEN i + 3
    ELSE IF i <= Len(s) /\ s[i] = "["
    THEN LET r == RunEnd(s, i + 1, DigitSemi, FALSE)
         IN  IF r >= i + 1 /\ r + 1 <= Len(s) /\ s[r + 1] = "m" THEN r + 1 ELSE 0
    ELSE 0

\* The last alternative with [\d;]* in place of [\d;]+.
BracketMatchEndStar(s, i) ==
    IF HasLit(s, i, <<"[", "0", "K">>) THEN i + 2
    ELSE IF HasLit(s, i, <<"[", "0", ";", "m">>) THEN i + 3
    ELSE IF i <= Len(s) /\ s[i] = "["
    THEN LET r == RunEnd(s, i + 1, DigitSemi, FALSE)
         IN  IF r + 1 <= Len(s) /\ s[r + 1] = "m" THEN r + 1 ELSE 0
    ELSE 0

\* re.sub(pattern, '', s): the leftmost non-overlapping matches removed in one
\* scan from position pos on; at holds the positions where the pattern matches
\* and ends[i] the end of the match at i.
RECURSIVE RemoveAll(_, _, _, _)
RemoveAll(s, pos, at, ends) ==
    LET ahead == {i \in at : i >= pos}
    IN  IF ahead = {} THEN SubSeq(s, pos, Len(s))
        ELSE LET i == SetMin(ahead)
             IN  SubSeq(s, pos, i - 1) \o RemoveAll(s, ends[i] + 1, at, ends)

RemoveEscWithoutEsc(s) ==
    LET at == {i \in 1..Len(s) : EscMatchEndNoEsc(s, i) > 0}
    IN  RemoveAll(s, 1, at, [i \in at |-> EscMatchEndNoEsc(s, i)])

\* re.sub(r'\x1b\[[0-9;]*[mGKH]', '', s)
RemoveEsc(s) ==
    LET at == {i \in {j \in 1..Len(s) : s[j] = ESC} : EscMatchEnd(s, i) > 0}
    IN  RemoveAll(s, 1, at, [i \in at |-> EscMatchEnd(s, i)])

RemoveBracketStar(s) ==
    LET at == {i \in 1..Len(s) : BracketMatchEndStar(s, i) > 0}
    IN  RemoveAll(s, 1, at, [i \in at |-> BracketMatchEndStar(s, i)])

\* re.sub(r'\[0K|\[0;m|\[[\d;]+m', '', s)
RemoveBracket(s) ==
    LET at == {i \in {j \in 1..Len(s) : s[j] = "["} : BracketMatchEnd(s, i) > 0}
    IN  RemoveAll(s, 1, at, [i \in at |-> BracketMatchEnd(s, i)])

\* The two passes in the order of the code.
Cleanup(s) == RemoveBracket(RemoveEsc(s))

\* str.strip()
Strip(s) ==
    LET first == RunEnd(s, 1, Whitespace, FALSE) + 1
        Black(k) == k < 1 \/ s[k] \notin Whitespace
        last == CHOOSE k \in 0..Len(s) :
                    Black(Len(s) - k) /\ \A j \in 0..(k - 1) : ~Black(Len(s) - j)
    IN  IF first > Len(s) THEN <<>> ELSE SubSeq(s, first, Len(s) - last)

CleanTrim(s) == Strip(Cleanup(s))

-----------------------------------------------------------------------------
(* The cleanup applied to arbitrary short texts: once, to its own output,   *)
(* and with the two passes in the other order.                              *)

MaxCleanLen == 6
CleanupAlphabet == {ESC, "[", "0", ";", "m", "K"}
CleanupTexts == UNION {[1..k -> CleanupAlphabet] : k \in 0..MaxCleanLen}

\* The variables a specification does not use keep these values.
IdleExtract ==
    /\ log_content = NoneText /\ sections_to_capture = NoneList /\ capture_all = FALSE
    /\ result = None /\ final_status = NotRun
IdleCleanup ==
    /\ content = <<>> /\ cleaned = NotRun /\ recleaned = NotRun /\ reversed = NotRun
IdleMain ==
    /\ response = None /\ extract_final = FALSE /\ calls = <<>> /\ files = <<>>

InitCleanup ==
    /\ pc = "raw"
    /\ content \in CleanupTexts
    /\ cleaned = NotRun /\ recleaned = NotRun /\ reversed = NotRun
    /\ IdleExtract /\ IdleMain

\* content = re.sub(pass 1); content = re.sub(pass 2)
ApplyCleanup ==
    /\ pc = "raw"
    /\ cleaned' = Cleanup(content)
    /\ pc' = "cleaned"
    /\ UNCHANGED <<log_content, sections_to_capture, capture_all, result, final_status,
                   content, recleaned, reversed, response, extract_final, calls, files>>

\* The same two passes applied to their own output.
ReapplyCleanup ==
    /\ pc = "cleaned"
    /\ recleaned' = Cleanup(cleaned)
    /\ pc' = "recleaned"
    /\ UNCHANGED <<log_content, sections_to_capture, capture_all, result, final_status,
                   content, cleaned, reversed, response, extract_final, calls, files>>

\* The residual-bracket pass first, the ESC pass second.
ApplyReversed ==
    /\ pc = "recleaned"
    /\ reversed' = RemoveEsc(RemoveBracket(content))
    /\ pc' = "compared"
    /\ UNCHANGED <<log_content, sections_to_capture, capture_all, result, final_status,
                   content, cleaned, recleaned, response, extract_final, calls, files>>

NextCleanup == ApplyCleanup \/ ReapplyCleanup \/ ApplyReversed

SpecCleanup == InitCleanup /\ [][NextCleanup]_vars

\* A removable code begins at position j of s.
CodeAt(s, j) == EscMatchEnd(s, j) > 0 \/ BracketMatchEnd(s, j) > 0

\* A code of s directly follows an incomplete code: a '[' and then only digits
\* and semicolons, or a lone ESC before an ESC-introduced code.
NestedCode(s) ==
    \E j \in 2..Len(s) :
        /\ CodeAt(s, j)
        /\ \/ \E i \in 1..(j - 1) :
                  s[i] = "[" /\ \A k \in (i + 1)..(j - 1) : s[k] \in DigitSemi
           \/ s[j - 1] = ESC /\ EscMatchEnd(s, j) > 0

-----------------------------------------------------------------------------
(* The marker scan.                                                         *)

SectionStartLit ==
    <<"s", "e", "c", "t", "i", "o", "n", "_", "s", "t", "a", "r", "t", ":">>

SectionEndLit ==
    <<"s", "e", "c", "t", "i", "o", "n", "_", "e", "n", "d", ":">>

N_prepare_executor ==
    <<"p", "r", "e", "p", "a", "r", "e", "_", "e", "x", "e", "c", "u", "t", "o", "r">>

N_prepare_script ==
    <<"p", "r", "e", "p", "a", "r", "e", "_", "s", "c", "r", "i", "p", "t">>

N_get_sources ==
    <<"g", "e", "t", "_", "s", "o", "u", "r", "c", "e", "s">>

N_step_script ==
    <<"s", "t", "e", "p", "_", "s", "c", "r", "i", "p", "t">>

N_tf_init ==
    <<"t", "f", "_", "i", "n", "i", "t">>

N_tf_plan ==
    <<"t", "f", "_", "p", "l", "a", "n">>

N_tf_scan ==
    <<"t", "f", "_", "s", "c", "a", "n">>

N_after_script ==
    <<"a", "f", "t", "e", "r", "_", "s", "c", "r", "i", "p", "t">>

N_upload_artifacts_on_failure ==
    <<"u", "p", "l", "o", "a", "d", "_", "a", "r", "t", "i", "f", "a", "c", "t", "s",
      "_", "o", "n", "_", "f", "a", "i", "l", "u", "r", "e">>

N_cleanup_file_variables ==
    <<"c", "l", "e", "a", "n", "u", "p", "_", "f", "i", "l", "e", "_", "v", "a", "r",
      "i", "a", "b", "l", "e", "s">>

SECTIONS_TO_CAPTURE ==
    {N_prepare_executor, N_prepare_script, N_get_sources, N_step_script, N_tf_init,
     N_tf_plan, N_tf_scan, N_after_script, N_upload_artifacts_on_failure,
     N_cleanup_file_variables}

\* lit(\d+): at position i: the position just after the colon that follows the
\* digits, 0 when the pattern does not match that far.
MarkerNameStart(s, i, lit) ==
    IF HasLit(s, i, lit)
    THEN LET d0 == i + Len(lit)
             d1 == RunEnd(s, d0, Digit, FALSE)
         IN  IF d1 >= d0 /\ d1 + 1 <= Len(s) /\ s[d1 + 1] = ":" THEN d1 + 2 ELSE 0
    ELSE 0

\* lit(\d+):([^\]\s\[]+) at position i: the position of the last character of
\* the match (Python's m.end()), 0 when it does not match there.
MarkerMatchEnd(s, i, lit) ==
    LET n0 == MarkerNameStart(s, i, lit)
    IN  IF n0 = 0 THEN 0
        ELSE LET n1 == RunEnd(s, n0, Whitespace \cup Brackets, TRUE)
             IN  IF n1 >= n0 THEN n1 ELSE 0

\* The matches from position pos on, leftmost first and not overlapping; at
\* holds the positions where the pattern matches.
RECURSIVE MatchesFrom(_, _, _, _)
MatchesFrom(s, pos, lit, at) ==
    LET ahead == {i \in at : i >= pos}
    IN  IF ahead = {} THEN <<>>
        ELSE LET i == SetMin(ahead)
                 e == MarkerMatchEnd(s, i, lit)
             IN  <<[start |-> i - 1, end |-> e,
                    name |-> SubSeq(s, MarkerNameStart(s, i, lit), e)]>>
                 \o MatchesFrom(s, e + 1, lit, at)

\* re.finditer(pattern, log_content)
FindIter(s, lit) ==
    MatchesFrom(s, 1, lit,
                {i \in {j \in 1..Len(s) : s[j] = lit[1]} : MarkerMatchEnd(s, i, lit) > 0})

StartMatches(log) == FindIter(log, SectionStartLit)
EndMatches(log) == FindIter(log, SectionEndLit)

EmptyDict == [n \in {} |-> 0]

\* The dictionary a loop of d[m.name] = m.<field> leaves: a later match
\* overwrites an earlier one of the same name.
RECURSIVE LastWins(_, _)
LastWins(ms, useEnd) ==
    IF ms = <<>> THEN EmptyDict
    ELSE LET m == ms[Len(ms)]
         IN  (m.name :> (IF useEnd THEN m.end ELSE m.start))
                 @@ LastWins(SubSeq(ms, 1, Len(ms) - 1), useEnd)

\* The dictionary the same loop would leave if the first match of a name won.
RECURSIVE FirstWins(_, _)
FirstWins(ms, useEnd) ==
    IF ms = <<>> THEN EmptyDict
    ELSE LET m == ms[1]
         IN  (m.name :> (IF useEnd THEN m.end ELSE m.start))
                 @@ FirstWins(SubSeq(ms, 2, Len(ms)), useEnd)

StartsFirstWins(sm) == FirstWins(sm, TRUE)
\* starts[section_name] = m.end(), for m in the start matches sm
Starts(sm) == LastWins(sm, TRUE)

\* ends[section_name] = m.start(), for m in the end matches em
Ends(em) == LastWins(em, FALSE)

-----------------------------------------------------------------------------
(* extract_sections                                                         *)

\* A list argument is false when it is None or empty.
Truthy(stc) == stc # NoneList /\ stc # {}

SectionsToExtractAbortOnMissing(starts, stc, all) ==
    IF all THEN DOMAIN starts
    ELSE IF Truthy(stc)
    THEN (IF stc \subseteq DOMAIN starts THEN stc ELSE {})
    ELSE {}

SectionsToExtractListFirst(starts, stc, all) ==
    IF Truthy(stc) THEN stc
    ELSE IF all THEN DOMAIN starts
    ELSE {}

\* sections_to_extract
SectionsToExtract(starts, stc, all) ==
    IF all THEN DOMAIN starts
    ELSE IF Truthy(stc) THEN stc
    ELSE {}

\* not_found, printed when not empty (on the explicit branch only)
NotFound(starts, stc, all) ==
    IF ~all /\ Truthy(stc) THEN stc \ DOMAIN starts ELSE {}

ExtractedOnlyInOrder(starts, ends, todo) ==
    {n \in todo : n \in DOMAIN starts /\ n \in DOMAIN ends /\ starts[n] < ends[n]}

\* The names that take the first branch of the extraction loop.
Extracted(starts, ends, todo) ==
    {n \in todo : n \in DOMAIN starts /\ n \in DOMAIN ends}

\* log_content[start_pos:end_pos], cleaned and stripped
SectionContent(log, start_pos, end_pos) ==
    CleanTrim(SubSeq(log, start_pos + 1, end_pos))

\* What extract_sections returns (sections), iterates over (start_matches,
\* end_matches) and prints (the rest).  The early return of the last branch
\* prints no count: count_printed is FALSE there.
extract_sections(log, stc, all) ==
    LET sm == StartMatches(log)
        em == EndMatches(log)
        starts == Starts(sm)
        ends == Ends(em)
        early == ~all /\ ~Truthy(stc)
        todo == SectionsToExtract(starts, stc, all)
        done == Extracted(starts, ends, todo)
    IN  [sections |-> [n \in done |-> SectionContent(log, starts[n], ends[n])],
         start_matches |-> sm,
         end_matches |-> em,
         all_sections |-> DOMAIN starts \cup DOMAIN ends,
         not_found |-> NotFound(starts, stc, all),
         start_no_end |-> {n \in todo : n \in DOMAIN starts /\ n \notin DOMAIN ends},
         end_no_start |-> {n \in todo : n \notin DOMAIN starts /\ n \in DOMAIN ends},
         count_printed |-> ~early,
         extracted_count |-> IF early THEN 0 ELSE Cardinality(done)]

-----------------------------------------------------------------------------
(* extract_final_status                                                     *)

\* r'section_end:\d+:cleanup_file_variables' at position i: the position of
\* its last character, 0 when it does not match there.
AnchorMatchEnd(s, i) ==
    LET n0 == MarkerNameStart(s, i, SectionEndLit)
    IN  IF n0 > 0 /\ HasLit(s, n0, N_cleanup_file_variables)
        THEN n0 + Len(N_cleanup_file_variables) - 1
        ELSE 0

AnchorPositions(s) ==
    {i \in {j \in 1..Len(s) : s[j] = SectionEndLit[1]} : AnchorMatchEnd(s, i) > 0}

extract_final_status_last(log) ==
    LET at == AnchorPositions(log)
    IN  IF at = {} THEN NoneText
        ELSE CleanTrim(SubSeq(log, AnchorMatchEnd(log, SetMax(at)) + 1, Len(log)))

\* re.search takes the leftmost match; None when there is none.
extract_final_status(log) ==
    LET at == AnchorPositions(log)
    IN  IF at = {} THEN NoneText
        ELSE CleanTrim(SubSeq(log, AnchorMatchEnd(log, SetMin(at)) + 1, Len(log)))

-----------------------------------------------------------------------------
(* The log texts: up to MaxPieces pieces of a GitLab job log, in any order. *)

\* "section_start:1:tf_init" and a newline
StartLine ==
    <<"s", "e", "c", "t", "i", "o", "n", "_", "s", "t", "a", "r", "t", ":", "1",
      ":", "t", "f", "_", "i", "n", "i", "t", "NL">>

\* "section_end:2:tf_init" and a newline
EndLine ==
    <<"s", "e", "c", "t", "i", "o", "n", "_", "e", "n", "d", ":", "2", ":", "t",
      "f", "_", "i", "n", "i", "t", "NL">>

\* "section_start:3:cleanup_file_variables" and a newline
CleanupStartLine ==
    <<"s", "e", "c", "t", "i", "o", "n", "_", "s", "t", "a", "r", "t", ":", "3",
      ":", "c", "l", "e", "a", "n", "u", "p", "_", "f", "i", "l", "e", "_", "v", "a",
      "r", "i", "a", "b", "l", "e", "s", "NL">>

\* "section_end:4:cleanup_file_variables" and a newline
CleanupEndLine ==
    <<"s", "e", "c", "t", "i", "o", "n", "_", "e", "n", "d", ":", "4", ":", "c",
      "l", "e", "a", "n", "u", "p", "_", "f", "i", "l", "e", "_", "v", "a", "r", "i",
      "a", "b", "l", "e", "s", "NL">>

\* "section_start:1:tf_init" with nothing after the name
StartBare ==
    <<"s", "e", "c", "t", "i", "o", "n", "_", "s", "t", "a", "r", "t", ":", "1",
      ":", "t", "f", "_", "i", "n", "i", "t">>

\* a residual "[0K", the text "ok" and a space
PlainText ==
    <<"[", "0", "K", "o", "k", "SP">>

\* the text "ok" between ESC[32m and ESC[0m
ColouredText ==
    <<ESC, "[", "3", "2", "m", "o", "k", ESC, "[", "0", "m">>

MaxPieces == 4
Pieces ==
    {StartLine, EndLine, CleanupStartLine, CleanupEndLine, StartBare, PlainText,
     ColouredText}

RECURSIVE Concat(_)
Concat(ps) == IF ps = <<>> THEN <<>> ELSE ps[1] \o Concat(Tail(ps))

Logs == {Concat(ps) : ps \in UNION {[1..k -> Pieces] : k \in 0..MaxPieces}}

\* The (capture_all, sections_to_capture) arguments of the calls checked.
Selections ==
    ({FALSE} \X {NoneList, {}, {N_tf_init}, {N_tf_plan, N_cleanup_file_variables},
                 {N_tf_init, N_tf_plan, N_cleanup_file_variables}})
    \cup ({TRUE} \X {NoneList, {N_tf_plan}})

-----------------------------------------------------------------------------
(* The two extraction functions called on any log with any selection.       *)

InitExtract ==
    /\ pc = "call"
    /\ log_content \in Logs
    /\ \E sel \in Selections : capture_all = sel[1] /\ sections_to_capture = sel[2]
    /\ result = None /\ final_status = NotRun
    /\ IdleCleanup /\ IdleMain

CallExtractSections ==
    /\ pc = "call"
    /\ result' = extract_sections(log_content, sections_to_capture, capture_all)
    /\ pc' = "sections"
    /\ UNCHANGED <<log_content, sections_to_capture, capture_all, final_status,
                   content, cleaned, recleaned, reversed, response, extract_final,
                   calls, files>>

CallExtractFinalStatus ==
    /\ pc = "sections"
    /\ final_status' = extract_final_status(log_content)
    /\ pc' = "status"
    /\ UNCHANGED <<log_content, sections_to_capture, capture_all, result,
                   content, cleaned, recleaned, reversed, response, extract_final,
                   calls, files>>

NextExtract == CallExtractSections \/ CallExtractFinalStatus

SpecExtract == InitExtract /\ [][NextExtract]_vars

Returned == pc = "sections"

-----------------------------------------------------------------------------
(* The vocabulary of the claims about extract_sections, stated on the       *)
(* markers the two scans find rather than on the dictionaries.              *)

MarkerNames(ms) == {ms[k].name : k \in 1..Len(ms)}

\* The offset just after the last marker named n (after = TRUE), or the offset
\* just before it.
LastOffset(ms, n, after) ==
    SetMax({IF after THEN ms[k].end ELSE ms[k].start :
                k \in {j \in 1..Len(ms) : ms[j].name = n}})

Occurrences(ms, n) == Cardinality({k \in 1..Len(ms) : ms[k].name = n})

Explicit(stc) == IF stc = NoneList THEN {} ELSE stc

WorkingSet(sm, stc, all) == IF all THEN MarkerNames(sm) ELSE Explicit(stc)

\* C1: a name of the working set with both markers, whose last start marker
\* ends before its last end marker begins, is mapped to the cleaned and trimmed
\* text between those two offsets.
C1_LastMarkersBoundContent ==
    Returned =>
        LET sm == result.start_matches
            em == result.end_matches
        IN  \A n \in WorkingSet(sm, sections_to_capture, capture_all)
                        \cap MarkerNames(sm) \cap MarkerNames(em) :
                LET a == LastOffset(sm, n, TRUE)
                    b == LastOffset(em, n, FALSE)
                IN  a < b =>
                        /\ n \in DOMAIN result.sections
                        /\ result.sections[n]
                               = Strip(RemoveBracket(RemoveEsc(SubSeq(log_content, a + 1, b))))

\* C1's case: a section with two start markers, whose content the cleanup and
\* the trim have both changed.
C1_Witness ==
    /\ Returned
    /\ LET sm == result.start_matches
           em == result.end_matches
       IN  \E n \in DOMAIN result.sections :
               /\ Occurrences(sm, n) >= 2
               /\ LastOffset(sm, n, TRUE) < LastOffset(em, n, FALSE)
               /\ result.sections[n] # <<>>
               /\ Len(result.sections[n])
                      < Len(Cleanup(SubSeq(log_content, LastOffset(sm, n, TRUE) + 1,
                                           LastOffset(em, n, FALSE))))
               /\ Cleanup(SubSeq(log_content, LastOffset(sm, n, TRUE) + 1,
                                 LastOffset(em, n, FALSE)))
                      # SubSeq(log_content, LastOffset(sm, n, TRUE) + 1,
                               LastOffset(em, n, FALSE))

\* C2: without capture-all the keys of the mapping are exactly the requested
\* names that have a start marker and an end marker.
C2_KeysAreRequestedPairs ==
    (Returned /\ ~capture_all) =>
        DOMAIN result.sections
            = Explicit(sections_to_capture)
                  \cap MarkerNames(result.start_matches)
                  \cap MarkerNames(result.end_matches)

\* C2's case: a selection with an absent name and a half-marked name beside a
\* name that has both markers and is returned.
C2_Witness ==
    /\ Returned /\ ~capture_all
    /\ LET sn == MarkerNames(result.start_matches)
           en == MarkerNames(result.end_matches)
       IN  /\ \E n \in Explicit(sections_to_capture) : n \notin sn \cup en
           /\ \E n \in Explicit(sections_to_capture) : n \in en \ sn
           /\ DOMAIN result.sections # {}

\* C3: with capture-all the mapping has as many entries as there are names
\* with both a start marker and an end marker.
C3_CaptureAllCountsPairs ==
    (Returned /\ capture_all) =>
        Cardinality(DOMAIN result.sections)
            = Cardinality(MarkerNames(result.start_matches)
                              \cap MarkerNames(result.end_matches))

\* C3's case: capture-all with a selection list that names none of the two
\* sections the log holds.
C3_Witness ==
    /\ Returned /\ capture_all
    /\ sections_to_capture = {N_tf_plan}
    /\ Cardinality(DOMAIN result.sections) = 2

\* C6: a start marker for tf_init directly followed by the coloured text
\* ESC[32m ok ESC[0m and the end marker for tf_init, selection {tf_init}:
\* the mapping is {tf_init: "ok"}.
C6_EscapeAfterMarkerName ==
    (/\ Returned /\ ~capture_all /\ sections_to_capture = {N_tf_init}
     /\ log_content = StartBare \o ColouredText \o EndLine)
        => result.sections = (N_tf_init :> <<"o", "k">>)

\* C8: with an explicit non-empty selection a requested name is reported as
\* not found exactly when it has neither marker, and a requested name with
\* exactly one marker is reported as a partial pair and not as not found.
C8_NotFoundIffNoMarker ==
    (Returned /\ ~capture_all /\ Truthy(sections_to_capture)) =>
        LET sn == MarkerNames(result.start_matches)
            en == MarkerNames(result.end_matches)
        IN  \A n \in sections_to_capture :
                /\ n \in result.not_found <=> n \notin sn \cup en
                /\ ((n \in sn) # (n \in en)) =>
                       /\ n \in result.start_no_end \cup result.end_no_start
                       /\ n \notin result.not_found

\* C10: a name of the working set with both markers, whose last start marker
\* ends at or after the start of its last end marker, is in the mapping with
\* the empty text, is counted, and is not reported as a partial pair.
C10_CrossedMarkersGiveEmpty ==
    Returned =>
        LET sm == result.start_matches
            em == result.end_matches
            both == WorkingSet(sm, sections_to_capture, capture_all)
                        \cap MarkerNames(sm) \cap MarkerNames(em)
        IN  \A n \in both :
                LastOffset(sm, n, TRUE) >= LastOffset(em, n, FALSE) =>
                    /\ n \in DOMAIN result.sections
                    /\ result.sections[n] = <<>>
                    /\ n \notin result.start_no_end \cup result.end_no_start
                    /\ result.count_printed
                    /\ result.extracted_count = Cardinality(both)

\* C10's case: start, end, then a second start of the same requested name.
C10_Witness ==
    /\ Returned /\ ~capture_all /\ N_tf_init \in sections_to_capture
    /\ log_content = StartLine \o EndLine \o StartLine
    /\ N_tf_init \in DOMAIN result.sections

-----------------------------------------------------------------------------
(* The vocabulary of the claim about extract_final_status.                  *)

\* At position i stands "section_end:", d digits, ":" and
\* "cleanup_file_variables".
AnchorStands(s, i, d) ==
    /\ HasLit(s, i, SectionEndLit)
    /\ i + Len(SectionEndLit) + d - 1 <= Len(s)
    /\ \A k \in (i + Len(SectionEndLit))..(i + Len(SectionEndLit) + d - 1) : s[k] \in Digit
    /\ HasLit(s, i + Len(SectionEndLit) + d, <<":">> \o N_cleanup_file_variables)

\* The pairs <<position, position of the last character>> of the anchors of s.
Anchors(s) ==
    UNION {{<<i, i + Len(SectionEndLit) + d + Len(N_cleanup_file_variables)>> :
               d \in {e \in 1..(Len(s) - i) : AnchorStands(s, i, e)}} :
           i \in {j \in 1..Len(s) : s[j] = "s" /\ HasLit(s, j, SectionEndLit)}}

\* C7: the final status is absent exactly when the log holds no end marker of
\* cleanup_file_variables; otherwise it is the cleaned and trimmed text after
\* the first one, a text and not the absent value.
C7_FinalStatusAfterFirstAnchor ==
    pc = "status" =>
        LET as == Anchors(log_content)
        IN  /\ final_status = NoneText <=> as = {}
            /\ as # {} =>
                   LET first == CHOOSE a \in as : \A b \in as : a[1] <= b[1]
                   IN  final_status
                           = Strip(RemoveBracket(RemoveEsc(
                                 SubSeq(log_content, first[2] + 1, Len(log_content)))))

\* C7's case: two end markers of cleanup_file_variables with different text
\* after each, and a non-empty final status.
C7_Witness ==
    /\ pc = "status"
    /\ Cardinality(Anchors(log_content)) = 2
    /\ final_status # <<>> /\ final_status # NoneText
    /\ final_status # extract_final_status_last(log_content)

-----------------------------------------------------------------------------
(* The main script: fetch, extract, save.                                   *)

Letters ==
    {"a", "b", "c", "d", "e", "f", "g", "h", "i", "j", "k", "l", "m", "n", "o", "p",
     "q", "r", "s", "t", "u", "v", "w", "x", "y", "z", "A", "B", "C", "D", "E", "F",
     "G", "H", "I", "J", "K", "L", "M", "N", "O", "P", "Q", "R", "S", "T", "U", "V",
     "W", "X", "Y", "Z"}

\* re.sub(r'[^\w\-_]', '_', section_name)
SafeFilename(name) ==
    [k \in 1..Len(name) |->
        IF name[k] \in Letters \cup Digit \cup {"_", "-"} THEN name[k] ELSE "_"]

FullLogStem == <<"f", "u", "l", "l", "_", "l", "o", "g">>
FinalStatusStem == <<"f", "i", "n", "a", "l", "_", "s", "t", "a", "t", "u", "s">>

\* The file <dir>/<stem>.txt with its content.
File(dir, stem, text) == [dir |-> dir, stem |-> stem, content |-> text]

\* What the log URL may answer: no answer (a timeout or a connection error), a
\* non-success status with some body, or success with a log.
Responses ==
    {[kind |-> "timeout", text |-> <<>>]}
    \cup {[kind |-> "http_error", text |-> l] :
             l \in {<<>>, StartLine \o PlainText \o EndLine \o CleanupEndLine \o PlainText}}
    \cup {[kind |-> "ok", text |-> l] : l \in Logs}

fetch_log_from_url_no_raise(resp) ==
    IF resp.kind \in {"ok", "http_error"} THEN resp.text ELSE NoneText

\* requests.get and raise_for_status raise a RequestException unless the
\* answer is a success; the handler returns None.
fetch_log_from_url(resp) ==
    IF resp.kind = "ok" THEN resp.text ELSE NoneText

\* A text is true when it is neither None nor empty.
TruthyText(x) == x # NoneText /\ x # <<>>

\* The orders in which a loop over the dictionary d may visit its keys.
KeyOrders(d) ==
    {o \in [1..Cardinality(DOMAIN d) -> DOMAIN d] :
        \A i, j \in 1..Cardinality(DOMAIN d) : i # j => o[i] # o[j]}

\* save_sections_to_files: one file per section.
save_sections_to_files(sections, order) ==
    [k \in 1..Len(order) |->
        File("log_sections", SafeFilename(order[k]), sections[order[k]])]

\* save_final_status writes nothing for None or an empty text.
save_final_status(fs) ==
    IF TruthyText(fs) THEN <<File("log_sections", FinalStatusStem, fs)>> ELSE <<>>

InitMain ==
    /\ pc = "fetch"
    /\ response \in Responses
    /\ sections_to_capture = SECTIONS_TO_CAPTURE
    /\ capture_all \in BOOLEAN
    /\ extract_final \in BOOLEAN
    /\ log_content = NotRun /\ result = None /\ final_status = NotRun
    /\ calls = <<>> /\ files = <<>>
    /\ IdleCleanup

\* log_content = fetch_log_from_url(log_url)
FetchLog ==
    /\ pc = "fetch"
    /\ log_content' = fetch_log_from_url(response)
    /\ calls' = Append(calls, "fetch_log_from_url")
    /\ pc' = "fetched"
    /\ UNCHANGED <<sections_to_capture, capture_all, result, final_status, content,
                   cleaned, recleaned, reversed, response, extract_final, files>>

\* if log_content: save_full_log(log_content)
SaveFullLog ==
    /\ pc = "fetched" /\ TruthyText(log_content)
    /\ files' = Append(files, File(".", FullLogStem, log_content))
    /\ calls' = Append(calls, "save_full_log")
    /\ pc' = "extract"
    /\ UNCHANGED <<log_content, sections_to_capture, capture_all, result, final_status,
                   content, cleaned, recleaned, reversed, response, extract_final>>

\* else: "Failed to fetch log content. Exiting."
FetchFailed ==
    /\ pc = "fetched" /\ ~TruthyText(log_content)
    /\ pc' = "failed"
    /\ UNCHANGED <<log_content, sections_to_capture, capture_all, result, final_status,
                   content, cleaned, recleaned, reversed, response, extract_final,
                   calls, files>>

\* sections = extract_sections(log_content, ...)
MainExtractSections ==
    /\ pc = "extract"
    /\ result' = extract_sections(log_content,
                                  IF capture_all THEN NoneList ELSE sections_to_capture,
                                  capture_all)
    /\ calls' = Append(calls, "extract_sections")
    /\ pc' = "final"
    /\ UNCHANGED <<log_content, sections_to_capture, capture_all, final_status, content,
                   cleaned, recleaned, reversed, response, extract_final, files>>

\* final_status = None; if EXTRACT_FINAL_STATUS: final_status = extract_final_status(...)
MainExtractFinalStatus ==
    /\ pc = "final"
    /\ final_status' = IF extract_final THEN extract_final_status(log_content) ELSE NoneText
    /\ calls' = IF extract_final THEN Append(calls, "extract_final_status") ELSE calls
    /\ pc' = "save"
    /\ UNCHANGED <<log_content, sections_to_capture, capture_all, result, content,
                   cleaned, recleaned, reversed, response, extract_final, files>>

\* if sections: save_sections_to_files(sections)
SaveSections ==
    /\ pc = "save" /\ DOMAIN result.sections # {}
    /\ \E order \in KeyOrders(result.sections) :
           files' = files \o save_sections_to_files(result.sections, order)
    /\ calls' = Append(calls, "save_sections_to_files")
    /\ pc' = "save_final"
    /\ UNCHANGED <<log_content, sections_to_capture, capture_all, result, final_status,
                   content, cleaned, recleaned, reversed, response, extract_final>>

\* The else branch saving the final status all the same.
NoSectionsSavesFinalStatus ==
    /\ pc = "save" /\ DOMAIN result.sections = {}
    /\ files' = files \o save_final_status(final_status)
    /\ pc' = "done"
    /\ UNCHANGED <<log_content, sections_to_capture, capture_all, result, final_status,
                   content, cleaned, recleaned, reversed, response, extract_final,
                   calls>>

\* else: "No sections were extracted."
NoSections ==
    /\ pc = "save" /\ DOMAIN result.sections = {}
    /\ pc' = "done"
    /\ UNCHANGED <<log_content, sections_to_capture, capture_all, result, final_status,
                   content, cleaned, recleaned, reversed, response, extract_final,
                   calls, files>>

\* if final_status: save_final_status(final_status)
SaveFinalStatus ==
    /\ pc = "save_final"
    /\ files' = files \o (IF TruthyText(final_status)
                          THEN save_final_status(final_status) ELSE <<>>)
    /\ calls' = IF TruthyText(final_status)
                THEN Append(calls, "save_final_status") ELSE calls
    /\ pc' = "done"
    /\ UNCHANGED <<log_content, sections_to_capture, capture_all, result, final_status,
                   content, cleaned, recleaned, reversed, response, extract_final>>

Next ==
    \/ FetchLog
    \/ SaveFullLog
    \/ FetchFailed
    \/ MainExtractSections
    \/ MainExtractFinalStatus
    \/ SaveSections
    \/ NoSections
    \/ SaveFinalStatus

Spec == InitMain /\ [][Next]_vars

Called(f) == \E k \in 1..Len(calls) : calls[k] = f

\* C9: when the fetch fails (no answer, or a non-success status) neither
\* extraction function is ever called and no file is written; an extraction
\* function is only ever called after a successful fetch.
C9_NoExtractionWithoutFetch ==
    /\ response.kind # "ok" =>
           /\ ~Called("extract_sections") /\ ~Called("extract_final_status")
           /\ files = <<>>
    /\ (Called("extract_sections") \/ Called("extract_final_status")) =>
           /\ calls[1] = "fetch_log_from_url"
           /\ response.kind = "ok" /\ log_content = response.text

\* C9's case: a non-success answer whose body holds a whole section and a
\* final status, and the script at its end.
C9_Witness ==
    /\ pc = "failed"
    /\ response.kind = "http_error" /\ response.text # <<>>
    /\ Called("fetch_log_from_url")

-----------------------------------------------------------------------------
(* The final-status file among the files of a run.                          *)

\* The positions in files of log_sections/final_status.txt.
FinalStatusFiles ==
    {k \in 1..Len(files) :
        files[k].dir = "log_sections" /\ files[k].stem = FinalStatusStem}

\* The file of the section n stands in files before position k.
SectionFileBefore(n, k) ==
    \E j \in 1..(k - 1) :
        files[j] = File("log_sections", SafeFilename(n), result.sections[n])

\* C11: the final-status file is written only when the extracted mapping is not
\* empty and the final-status text is a non-empty string, it then holds that
\* text and is the last file written, after the file of every section; a run
\* that ends with no section has written no final-status file, whether the
\* anchor stands in the log or not.
C11_FinalStatusOnlyAfterSections ==
    /\ \A k \in FinalStatusFiles :
           /\ pc = "done"
           /\ DOMAIN result.sections # {}
           /\ extract_final
           /\ final_status # NoneText /\ final_status # <<>>
           /\ final_status = extract_final_status(log_content)
           /\ files[k].content = final_status
           /\ k = Len(files)
           /\ k = Cardinality(DOMAIN result.sections) + 2
           /\ \A n \in DOMAIN result.sections : SectionFileBefore(n, k)
           /\ Called("save_sections_to_files")
    /\ (pc = "done" /\ DOMAIN result.sections = {}) =>
           /\ FinalStatusFiles = {}
           /\ files = <<File(".", FullLogStem, log_content)>>

\* C11's case: a run that has written the final-status file after the files
\* of two sections.
C11_Witness ==
    /\ pc = "done"
    /\ FinalStatusFiles = {Len(files)}
    /\ Cardinality(DOMAIN result.sections) = 2
    /\ \A n \in DOMAIN result.sections : SectionFileBefore(n, Len(files))

\* The other case of C11: the anchor stands in the log and gives a non-empty
\* final status, no section was extracted, and the run has ended.
C11_AnchorWithoutSections ==
    /\ pc = "done"
    /\ DOMAIN result.sections = {}
    /\ final_status # NotRun /\ final_status # NoneText /\ final_status # <<>>
    /\ FinalStatusFiles = {}

====
